---- MODULE Spec2Model ----
(***************************************************************************)
(* Model of persistence.py: SmartHousePersistence (one sqlite connection   *)
(* and one shared cursor) and SmartHouseAnalytics (five read-only queries  *)
(* over the tables rooms, devices and measurements).                       *)
(*                                                                         *)
(* Encoding of values                                                      *)
(*   - SQL NULL and Python None are the empty tuple <<>>; a value that may *)
(*     be NULL/None is carried as <<v>>.                                   *)
(*   - A time_stamp is the text 'YYYY-MM-DD HH:MM:SS.mmm', kept as the     *)
(*     record [day, hour, sec, ms] of the fields it spells (sec counts the *)
(*     seconds within the hour).                                           *)
(*   - avg() is the exact fraction <<numerator, denominator>> in lowest    *)
(*     terms.                                                              *)
(***************************************************************************)
EXTENDS Integers, Sequences, FiniteSets

VARIABLES rooms, devices, measurements, cursor, call, result

vars == <<rooms, devices, measurements, cursor, call, result>>

tables == <<rooms, devices, measurements>>

(***************************************************************************)
(* Bounds of the model                                                     *)
(***************************************************************************)
MaxRows == 3
MaxTimeRows == 3
MaxRoomRows == 3
MaxHumRows == 5

(***************************************************************************)
(* Program constants                                                       *)
(***************************************************************************)
ComparisonDevice == 21
MinCount == 3

NULL == <<>>
None == <<>>

Range(s) == {s[i] : i \in DOMAIN s}

(***************************************************************************)
(* The stored tables.  rooms(id, name), devices(id, type, room); a device  *)
(* that is not placed in a room has room = NULL.                           *)
(***************************************************************************)
Rooms0 ==
    { [id |-> 1, name |-> "Kitchen"],
      [id |-> 2, name |-> "Bathroom"] }

Devices0 ==
    { [id |-> 21, type |-> "Fuktighetssensor", room |-> <<1>>],
      [id |-> 4,  type |-> "Fuktighetssensor", room |-> <<2>>],
      [id |-> 8,  type |-> "Temperatursensor", room |-> <<1>>],
      [id |-> 9,  type |-> "Temperatursensor", room |-> <<2>>],
      [id |-> 12, type |-> "Temperatursensor", room |-> NULL],
      [id |-> 30, type |-> "Smart Lys",        room |-> <<1>>] }

Stamp(d, h, s, f) == [day |-> d, hour |-> h, sec |-> s, ms |-> f]

Row(dev, v, ts) == [device |-> dev, value |-> v, time_stamp |-> ts]

(***************************************************************************)
(* sqlite date and time functions                                          *)
(***************************************************************************)
\* DATETIME(x): 'YYYY-MM-DD HH:MM:SS'; the fraction of a second is dropped.
\* Two results compare as their texts do, which is as these numbers do.
DATETIME(ts) == (ts.day * 24 + ts.hour) * 3600 + ts.sec

\* DATE(x): 'YYYY-MM-DD'.
DATE(ts) == ts.day

\* STRFTIME('%H', DATETIME(x)): the hour as two digits.
STRFTIME_H(ts) == <<ts.hour \div 10, ts.hour % 10>>

\* Python int() of a two-digit text.
int(text) == text[1] * 10 + text[2]

\* The instant a time stamp (or a Python datetime) denotes, in milliseconds.
Instant(ts) == DATETIME(ts) * 1000 + ts.ms

(***************************************************************************)
(* sqlite aggregates over a non-empty or empty set of row numbers          *)
(***************************************************************************)
RECURSIVE GCD(_, _)
GCD(a, b) == IF b = 0 THEN a ELSE GCD(b, a % b)

RECURSIVE SUM(_, _)
SUM(ms, idx) ==
    IF idx = {} THEN 0
    ELSE LET i == CHOOSE j \in idx : TRUE
         IN ms[i].value + SUM(ms, idx \ {i})

MIN(ms, idx) == CHOOSE v \in {ms[i].value : i \in idx} :
                    \A i \in idx : v <= ms[i].value

MAX(ms, idx) == CHOOSE v \in {ms[i].value : i \in idx} :
                    \A i \in idx : v >= ms[i].value

\* avg(value): NULL over no rows, else sum / count.
AVG(ms, idx) ==
    IF idx = {} THEN NULL
    ELSE LET s == SUM(ms, idx)
             n == Cardinality(idx)
             g == GCD(s, n)
         IN <<s \div g, n \div g>>

\* value > avg: a comparison with NULL is not true.
GreaterThan(v, avg) == avg # NULL /\ v * avg[2] > avg[1]

\* All orders in which the rows of a set can be delivered.
Orderings(S) ==
    {s \in [1..Cardinality(S) -> S] : Range(s) = S}

(***************************************************************************)
(* The cursor shared by all calls                                          *)
(***************************************************************************)
FreshCursor == [live |-> TRUE, rows |-> <<>>]

\* cursor.execute(select): the result set replaces whatever was pending.
execute(cur, rs) == [cur EXCEPT !.rows = rs]

\* cursor.fetchone(): the next row, or None.
fetchone(cur) ==
    IF cur.rows = <<>> THEN [row |-> None, cursor |-> cur]
    ELSE [row |-> Head(cur.rows), cursor |-> [cur EXCEPT !.rows = Tail(cur.rows)]]

\* cursor.fetchall(): all pending rows.
fetchall(cur) == [rows |-> cur.rows, cursor |-> [cur EXCEPT !.rows = <<>>]]

Return(v) == [kind |-> "return", val |-> v]

\* execute on a cursor whose connection was closed raises.
Raise == [kind |-> "raise", val |-> <<"ProgrammingError">>]

Outcome(r, cur) == [result |-> r, cursor |-> cur]

(***************************************************************************)
(* The joins  measurements m JOIN devices d ON d.id = m.device             *)
(*            JOIN rooms r ON r.id = d.room                                *)
(* ids are primary keys, so a measurement row joins at most once; a row is *)
(* named by its row number in measurements.                                *)
(***************************************************************************)
Joined(ms, devs, rms) ==
    {i \in DOMAIN ms :
        \E d \in devs, r \in rms : d.id = ms[i].device /\ d.room = <<r.id>>}

DeviceOf(i, ms, devs) == CHOOSE d \in devs : d.id = ms[i].device

RoomOf(i, ms, devs, rms) ==
    CHOOSE r \in rms : DeviceOf(i, ms, devs).room = <<r.id>>

(***************************************************************************)
(* The five statements.  Each operator is the set of result sets the       *)
(* statement can deliver: one sequence of rows per order sqlite leaves     *)
(* open.                                                                   *)
(***************************************************************************)
\* SELECT value FROM measurements WHERE device = {id}
\*   ORDER BY datetime(time_stamp) DESC limit 1
\* Rows whose datetime() is equal are in no defined order.
MostRecentQueryAnyDevice(id, ms) ==
    LET idx == DOMAIN ms
        top == {i \in idx : \A j \in idx :
                    DATETIME(ms[j].time_stamp) <= DATETIME(ms[i].time_stamp)}
    IN IF idx = {} THEN {<<>>}
       ELSE {<< <<ms[i].value>> >> : i \in top}

MostRecentQuery(id, ms) ==
    LET idx == {i \in DOMAIN ms : ms[i].device = id}
        top == {i \in idx : \A j \in idx :
                    DATETIME(ms[j].time_stamp) <= DATETIME(ms[i].time_stamp)}
    IN IF idx = {} THEN {<<>>}
       ELSE {<< <<ms[i].value>> >> : i \in top}

\* SELECT r.name, min(value) FROM measurements m inner join devices d ...
\* An aggregate without GROUP BY delivers exactly one row; over no rows it
\* is (NULL, NULL).  r.name is taken from a row that holds the minimum.
ColdestQueryFromRooms(ms, devs, rms) ==
    LET J == Joined(ms, devs, rms)
        low == {i \in J : ms[i].value = MIN(ms, J)}
    IN IF J = {} THEN {<< << <<r.name>>, NULL >> >> : r \in rms}
       ELSE {<< << <<RoomOf(i, ms, devs, rms).name>>, <<ms[i].value>> >> >> :
                i \in low}

ColdestQueryMax(ms, devs, rms) ==
    LET J == Joined(ms, devs, rms)
        high == {i \in J : ms[i].value = MAX(ms, J)}
    IN IF J = {} THEN {<< <<NULL, NULL>> >>}
       ELSE {<< << <<RoomOf(i, ms, devs, rms).name>>, <<ms[i].value>> >> >> :
                i \in high}

ColdestQuery(ms, devs, rms) ==
    LET J == Joined(ms, devs, rms)
        low == {i \in J : ms[i].value = MIN(ms, J)}
    IN IF J = {} THEN {<< <<NULL, NULL>> >>}
       ELSE {<< << <<RoomOf(i, ms, devs, rms).name>>, <<ms[i].value>> >> >> :
                i \in low}

\* SELECT value FROM measurements m WHERE device = {id} AND
\*   DATETIME(time_stamp) BETWEEN DATETIME('{from_ts}') AND DATETIME('{to_ts}')
\* A scan of the table delivers the rows by rowid, the order of insertion.
TimespanQuery(id, from_ts, to_ts, ms) ==
    LET hit(m) == /\ m.device = id
                  /\ DATETIME(m.time_stamp) >= DATETIME(from_ts)
                  /\ DATETIME(m.time_stamp) <= DATETIME(to_ts)
        sel == SelectSeq(ms, hit)
    IN {[k \in 1..Len(sel) |-> <<sel[k].value>>]}

\* SELECT r.name, min(value), max(value), avg(value) ...
\*   WHERE d.type = 'Temperatursensor' GROUP BY r.name
TemperatureQueryAllTypes(ms, devs, rms) ==
    LET J == Joined(ms, devs, rms)
        names == {RoomOf(i, ms, devs, rms).name : i \in J}
        G(n) == {i \in J : RoomOf(i, ms, devs, rms).name = n}
    IN Orderings({<<n, MIN(ms, G(n)), MAX(ms, G(n)), AVG(ms, G(n))>> : n \in names})

TemperatureQuery(ms, devs, rms) ==
    LET J == {i \in Joined(ms, devs, rms) :
                 DeviceOf(i, ms, devs).type = "Temperatursensor"}
        names == {RoomOf(i, ms, devs, rms).name : i \in J}
        G(n) == {i \in J : RoomOf(i, ms, devs, rms).name = n}
    IN Orderings({<<n, MIN(ms, G(n)), MAX(ms, G(n)), AVG(ms, G(n))>> : n \in names})

\* HAVING COUNT(m.value) > 3
HAVING_AtLeast(n) == n >= MinCount

HAVING(n) == n > MinCount

\* (SELECT AVG(value) FROM measurements m
\*    WHERE m.device = 21 AND DATE(time_stamp) = DATE('{day}'))
BaselineOrZero(day, ms) ==
    LET a == AVG(ms, {i \in DOMAIN ms : /\ ms[i].device = ComparisonDevice
                                        /\ DATE(ms[i].time_stamp) = DATE(day)})
    IN IF a = NULL THEN <<0, 1>> ELSE a

Baseline(day, ms) ==
    AVG(ms, {i \in DOMAIN ms : /\ ms[i].device = ComparisonDevice
                               /\ DATE(ms[i].time_stamp) = DATE(day)})

\* SELECT STRFTIME('%H', DATETIME(m.time_stamp)) AS hours ... GROUP BY hours
\*   HAVING COUNT(m.value) > 3
HumidityQuery(room_name, day, ms, devs, rms) ==
    LET base == Baseline(day, ms)
        sel == {i \in Joined(ms, devs, rms) :
                   /\ RoomOf(i, ms, devs, rms).name = room_name
                   /\ DeviceOf(i, ms, devs).type = "Fuktighetssensor"
                   /\ DATE(ms[i].time_stamp) = DATE(day)
                   /\ GreaterThan(ms[i].value, base)}
        G(h) == {i \in sel : STRFTIME_H(ms[i].time_stamp) = h}
        hours == {h \in {STRFTIME_H(ms[i].time_stamp) : i \in sel} :
                     HAVING(Cardinality(G(h)))}
    IN Orderings({<<h>> : h \in hours})

(***************************************************************************)
(* SmartHouseAnalytics: what a call returns and how it leaves the cursor,  *)
(* from the cursor and the tables it finds.                                *)
(***************************************************************************)
MostRecentReading(cur, sensor, ms) ==
    IF ~cur.live THEN {Outcome(Raise, cur)}
    ELSE {LET f == fetchone(execute(cur, rs))
          IN Outcome(Return(IF f.row # <<>> THEN <<f.row[1]>> ELSE None), f.cursor) :
             rs \in MostRecentQuery(sensor, ms)}

ColdestRoom(cur, ms, devs, rms) ==
    IF ~cur.live THEN {Outcome(Raise, cur)}
    ELSE {LET f == fetchone(execute(cur, rs))
          IN Outcome(Return(IF f.row # <<>> THEN f.row[1] ELSE None), f.cursor) :
             rs \in ColdestQuery(ms, devs, rms)}

ReadingsInTimespan(cur, sensor, from_ts, to_ts, ms) ==
    IF ~cur.live THEN {Outcome(Raise, cur)}
    ELSE {LET f == fetchall(execute(cur, rs))
          IN Outcome(Return([k \in DOMAIN f.rows |-> f.rows[k][1]]), f.cursor) :
             rs \in TimespanQuery(sensor, from_ts, to_ts, ms)}

\* result[row[0]] = (row[1], row[2], row[3]), a later row replacing an earlier one
RowsToDict(rows) ==
    [n \in {rows[k][1] : k \in DOMAIN rows} |->
        LET last == CHOOSE k \in DOMAIN rows :
                        /\ rows[k][1] = n
                        /\ \A j \in DOMAIN rows : rows[j][1] = n => j <= k
        IN <<rows[last][2], rows[last][3], rows[last][4]>>]

TemperatureSummary(cur, ms, devs, rms) ==
    IF ~cur.live THEN {Outcome(Raise, cur)}
    ELSE {LET f == fetchall(execute(cur, rs))
          IN Outcome(Return(RowsToDict(f.rows)), f.cursor) :
             rs \in TemperatureQuery(ms, devs, rms)}

HoursAboveAverage(cur, room_name, day, ms, devs, rms) ==
    IF ~cur.live THEN {Outcome(Raise, cur)}
    ELSE {LET f == fetchall(execute(cur, rs))
          IN Outcome(Return([k \in DOMAIN f.rows |-> int(f.rows[k][1])]), f.cursor) :
             rs \in HumidityQuery(room_name, day, ms, devs, rms)}

\* Every statement the analytics execute is a SELECT: no table is written.
SelectThenPurge == rooms' = rooms /\ devices' = devices /\ measurements' = <<>>

SelectOnly == rooms' = rooms /\ devices' = devices /\ measurements' = measurements

Took(outcomes) == \E o \in outcomes : result' = o.result /\ cursor' = o.cursor

(***************************************************************************)
(* Actions: one per method                                                 *)
(***************************************************************************)
get_most_recent_sensor_reading(sensor) ==
    /\ Took(MostRecentReading(cursor, sensor, measurements))
    /\ call' = [op |-> "get_most_recent_sensor_reading", args |-> <<sensor>>]
    /\ SelectOnly

get_coldest_room ==
    /\ Took(ColdestRoom(cursor, measurements, devices, rooms))
    /\ call' = [op |-> "get_coldest_room", args |-> <<>>]
    /\ SelectOnly

get_sensor_readings_in_timespan(sensor, from_ts, to_ts) ==
    /\ Took(ReadingsInTimespan(cursor, sensor, from_ts, to_ts, measurements))
    /\ call' = [op |-> "get_sensor_readings_in_timespan",
                args |-> <<sensor, from_ts, to_ts>>]
    /\ SelectOnly

describe_temperature_in_rooms ==
    /\ Took(TemperatureSummary(cursor, measurements, devices, rooms))
    /\ call' = [op |-> "describe_temperature_in_rooms", args |-> <<>>]
    /\ SelectOnly

get_hours_when_humidity_above_average(room_name, day) ==
    /\ Took(HoursAboveAverage(cursor, room_name, day, measurements, devices, rooms))
    /\ call' = [op |-> "get_hours_when_humidity_above_average",
                args |-> <<room_name, day>>]
    /\ SelectOnly

\* connection.commit(): the analytics hold no pending write.
save ==
    /\ call' = [op |-> "save", args |-> <<>>]
    /\ result' = Return(None)
    /\ UNCHANGED <<rooms, devices, measurements, cursor>>

\* The old connection is closed, which kills its cursor; a new connection and
\* a new cursor take their place.
reconnect_keeps_cursor ==
    /\ cursor' = [cursor EXCEPT !.live = FALSE]
    /\ call' = [op |-> "reconnect", args |-> <<>>]
    /\ result' = Return(None)
    /\ UNCHANGED <<rooms, devices, measurements>>

reconnect ==
    /\ cursor' = FreshCursor
    /\ call' = [op |-> "reconnect", args |-> <<>>]
    /\ result' = Return(None)
    /\ UNCHANGED <<rooms, devices, measurements>>

\* Ingestion, outside the analytics: one more measurement row.
Ingest(row, max) ==
    /\ Len(measurements) < max
    /\ measurements' = Append(measurements, row)
    /\ call' = [op |-> "ingest", args |-> <<row>>]
    /\ UNCHANGED <<rooms, devices, cursor, result>>

Init ==
    /\ rooms = Rooms0
    /\ devices = Devices0
    /\ measurements = <<>>
    /\ cursor = FreshCursor
    /\ call = [op |-> "init", args |-> <<>>]
    /\ result = Return(None)

AnalyticsOps ==
    { "get_most_recent_sensor_reading", "get_coldest_room",
      "get_sensor_readings_in_timespan", "describe_temperature_in_rooms",
      "get_hours_when_humidity_above_average" }

(***************************************************************************)
(* Spec: all methods, over a small store                                   *)
(***************************************************************************)
Stamps == {Stamp(0, 0, 0, 0), Stamp(0, 1, 0, 0)}

Rows == {Row(d, v, ts) : d \in {21, 8}, v \in {1, 2}, ts \in Stamps}

Days == {[day |-> 0], [day |-> 1]}

RoomNames == {"Kitchen", "Bathroom"}

IngestAny == \E row \in Rows : Ingest(row, MaxRows)

Next ==
    \/ IngestAny
    \/ \E sensor \in {21, 8, 30} : get_most_recent_sensor_reading(sensor)
    \/ get_coldest_room
    \/ \E sensor \in {8, 30}, from_ts \in Stamps, to_ts \in Stamps :
          get_sensor_readings_in_timespan(sensor, from_ts, to_ts)
    \/ describe_temperature_in_rooms
    \/ \E room_name \in RoomNames, day \in Days :
          get_hours_when_humidity_above_average(room_name, day)
    \/ save
    \/ reconnect

Spec == Init /\ [][Next]_vars

(***************************************************************************)
(* SpecTime: the two queries over time stamps                              *)
(***************************************************************************)
TimeStamps == {Stamp(0, 0, s, f) : s \in {0, 1}, f \in {0, 500}}

TimeRows == {Row(d, v, ts) : d \in {8, 9}, v \in {1, 2}, ts \in TimeStamps}

IngestTime == \E row \in TimeRows : Ingest(row, MaxTimeRows)

NextTime ==
    \/ IngestTime
    \/ \E sensor \in {8, 9, 30} : get_most_recent_sensor_reading(sensor)
    \/ \E sensor \in {8, 9}, from_ts \in TimeStamps, to_ts \in TimeStamps :
          get_sensor_readings_in_timespan(sensor, from_ts, to_ts)

SpecTime == Init /\ [][NextTime]_vars

(***************************************************************************)
(* SpecRooms: the two queries over rooms and device types                  *)
(***************************************************************************)
RoomRows == {Row(d, v, Stamp(0, 0, 0, 0)) : d \in {21, 8, 9, 12}, v \in {1, 2, 3}}

IngestRooms == \E row \in RoomRows : Ingest(row, MaxRoomRows)

NextRooms ==
    \/ IngestRooms
    \/ get_coldest_room
    \/ describe_temperature_in_rooms

SpecRooms == Init /\ [][NextRooms]_vars

(***************************************************************************)
(* SpecHumidity: the hours of a day with humidity above the baseline       *)
(***************************************************************************)
HumRows ==
    {Row(d, v, Stamp(0, 0, 0, 0)) : d \in {21, 4}, v \in {1, 2}}
    \cup { Row(4, 2, Stamp(0, 1, 0, 0)),
           Row(4, 2, Stamp(1, 0, 0, 0)),
           Row(8, 2, Stamp(0, 0, 0, 0)) }

IngestHumidity == \E row \in HumRows : Ingest(row, MaxHumRows)

NextHumidity ==
    \/ IngestHumidity
    \/ \E room_name \in RoomNames, day \in Days :
          get_hours_when_humidity_above_average(room_name, day)

SpecHumidity == Init /\ [][NextHumidity]_vars

(***************************************************************************)
(* Properties                                                              *)
(***************************************************************************)
RowsOf(id) == {i \in DOMAIN measurements : measurements[i].device = id}

StampOf(i) == measurements[i].time_stamp

DistinctStamps(idx) ==
    \A i, j \in idx : i # j => Instant(StampOf(i)) # Instant(StampOf(j))

Latest(idx) ==
    CHOOSE i \in idx : \A j \in idx : Instant(StampOf(j)) <= Instant(StampOf(i))

\* C1: for a device with at least one row and pairwise distinct time stamps,
\* get_most_recent_sensor_reading returns the value of the row whose time
\* stamp is the latest, whatever the insertion order and the other devices.
C1_MostRecentIsLatest ==
    (/\ call.op = "get_most_recent_sensor_reading"
     /\ RowsOf(call.args[1]) # {}
     /\ DistinctStamps(RowsOf(call.args[1])))
    => result = Return(<<measurements[Latest(RowsOf(call.args[1]))].value>>)

\* The rooms that hold a device with a measurement of value v.
RoomsHolding(v, devs) ==
    {r \in rooms : \E d \in devs : /\ d.room = <<r.id>>
                                    /\ \E i \in RowsOf(d.id) : measurements[i].value = v}

LeastOf(idx) ==
    CHOOSE v \in {measurements[i].value : i \in idx} :
        \A i \in idx : v <= measurements[i].value

PlacedRows ==
    {i \in DOMAIN measurements :
        \E d \in devices : d.id = measurements[i].device /\ d.room # NULL}

InSpan(i, from_ts, to_ts) ==
    /\ Instant(from_ts) <= Instant(StampOf(i))
    /\ Instant(StampOf(i)) <= Instant(to_ts)

\* C3: get_sensor_readings_in_timespan returns exactly the values of the
\* device's rows with from <= time stamp <= to, in insertion order, both ends
\* included, no other row, and the empty list when none matches.
C3_ReadingsAreThoseInSpan ==
    call.op = "get_sensor_readings_in_timespan"
    => LET inSpan(m) == /\ m.device = call.args[1]
                        /\ Instant(call.args[2]) <= Instant(m.time_stamp)
                        /\ Instant(m.time_stamp) <= Instant(call.args[3])
           want == SelectSeq(measurements, inSpan)
       IN result = Return([k \in 1..Len(want) |-> want[k].value])

TemperatureRows(r) ==
    {i \in DOMAIN measurements :
        \E d \in devices : /\ d.id = measurements[i].device
                           /\ d.type = "Temperatursensor"
                           /\ d.room = <<r.id>>}

\* C4: describe_temperature_in_rooms returns a mapping whose keys are exactly
\* the names of the rooms with at least one measurement of a temperature
\* sensor, each mapped to (minimum, maximum, arithmetic mean) of all and only
\* the measurements of that room's temperature sensors.
C4_TemperatureSummary ==
    call.op = "describe_temperature_in_rooms"
    => /\ result.kind = "return"
       /\ DOMAIN result.val = {r.name : r \in {x \in rooms : TemperatureRows(x) # {}}}
       /\ \A r \in rooms :
             TemperatureRows(r) # {} =>
                LET T == TemperatureRows(r)
                    e == result.val[r.name]
                IN /\ e[1] \in {measurements[i].value : i \in T}
                   /\ \A i \in T : e[1] <= measurements[i].value /\ measurements[i].value <= e[2]
                   /\ e[2] \in {measurements[i].value : i \in T}
                   /\ e[3][1] * Cardinality(T) = SUM(measurements, T) * e[3][2]
                   /\ e[3][2] > 0

\* The kitchen has two different temperature readings and a humidity reading
\* outside their range; the bathroom is absent.
C4_Witness ==
    /\ call.op = "describe_temperature_in_rooms"
    /\ DOMAIN result.val = {"Kitchen"}
    /\ result.val["Kitchen"] = <<2, 3, <<5, 2>> >>
    /\ \E i \in RowsOf(21) : measurements[i].value = 1

\* The rows that count for a room name and a day: a humidity sensor of that
\* room, on that day, with a value above the mean of device 21 on that day.
Qualifying(room_name, day) ==
    LET base == {i \in RowsOf(ComparisonDevice) : StampOf(i).day = day.day}
        total == SUM(measurements, base)
        count == Cardinality(base)
    IN {i \in DOMAIN measurements :
           /\ StampOf(i).day = day.day
           /\ count > 0
           /\ measurements[i].value * count > total
           /\ \E d \in devices, r \in rooms :
                 /\ d.id = measurements[i].device
                 /\ d.type = "Fuktighetssensor"
                 /\ d.room = <<r.id>>
                 /\ r.name = room_name}

C6_ColdestOfNothing ==
    (call.op = "get_coldest_room" /\ measurements = <<>>)
    => result = Return(None)

C6_Witness ==
    /\ call.op = "get_coldest_room"
    /\ measurements = <<>>
    /\ rooms # {}
    /\ devices # {}

\* C7: for a device with no measurement row, get_most_recent_sensor_reading
\* returns None and raises nothing, also when other devices have rows.
C7_NoRowsNoValue ==
    (call.op = "get_most_recent_sensor_reading" /\ RowsOf(call.args[1]) = {})
    => result = Return(None)

\* A sensor without rows is asked while another device has rows.
C7_Witness ==
    /\ call.op = "get_most_recent_sensor_reading"
    /\ call.args[1] = 8
    /\ RowsOf(8) = {}
    /\ RowsOf(21) # {}

\* C8: a step that is a call of one of the five analytics operations leaves
\* the contents of rooms, devices and measurements as they were.
C8_AnalyticsOnlyRead ==
    [][call'.op \in AnalyticsOps => tables' = tables]_vars

C8_Witness ==
    /\ call.op \in AnalyticsOps
    /\ Len(measurements) = MaxRows
    /\ result.kind = "return"
    /\ result.val # <<>>

\* What a call returns on a cursor nothing was executed on.
Answers(c) ==
    LET done ==
          CASE c.op = "get_most_recent_sensor_reading" ->
                 MostRecentReading(FreshCursor, c.args[1], measurements)
            [] c.op = "get_coldest_room" ->
                 ColdestRoom(FreshCursor, measurements, devices, rooms)
            [] c.op = "get_sensor_readings_in_timespan" ->
                 ReadingsInTimespan(FreshCursor, c.args[1], c.args[2], c.args[3],
                                    measurements)
            [] c.op = "describe_temperature_in_rooms" ->
                 TemperatureSummary(FreshCursor, measurements, devices, rooms)
            [] c.op = "get_hours_when_humidity_above_average" ->
                 HoursAboveAverage(FreshCursor, c.args[1], c.args[2],
                                   measurements, devices, rooms)
    IN {o.result : o \in done}

====
